---- MODULE Spec2Model ----
\* Telemetry ingestion of sdl_orbitsim.cpp: createSocket (connect with retry),
\* getSatelliteData (poll / recv / strtok / atoi) and the frame loop of main
\* that feeds sat_params back into getSatelliteData and indexes it.
\*
\* Bytes are one-character strings, a message is a sequence of bytes, and
\* sat_params is a sequence of integers: sat_params[0] of the source is
\* sat_params[1] here, sat_params[1] of the source is sat_params[2] here.
EXTENDS Integers, Sequences, FiniteSets, TLC

VARIABLES
    pc,             \* position of the process: start, connect, loop, poll, done, crashed
    sockState,      \* the descriptor made at line 70: none, open (blocking),
                    \* nonblocking, connected, closed
    client_socket,  \* value returned by createSocket (-1 while it runs)
    fallback,       \* createSocket's retry counter
    connLog,        \* outcomes of the connect calls made so far, in order
    sleeps,         \* number of SDL_Delay(1000) performed by createSocket
    closeLog,       \* descriptors passed to close(), in order
    sat_params,     \* main's sat_params
    angle,          \* main's angle
    altitude,       \* the altitude last passed to calculate_sat_coordinates
    queue,          \* messages written by the producer and not yet read (head first)
    peerClosed,     \* the producer has closed its end
    sent,           \* number of messages the producer has written
    frames,         \* number of frames started
    default_params, \* getSatelliteData's third argument in the current call
    callPolls,      \* poll() calls made in the current / last call
    callRecvs,      \* recv() calls made in the current / last call
    lastRecv,       \* result of the latest recv of the current / last call
    last,           \* what the last finished call was given and saw
    headCut,        \* the head of queue is the unread rest of a message
    eofSeen         \* some recv on the connection has returned 0

vars == << pc, sockState, client_socket, fallback, connLog, sleeps, closeLog,
           sat_params, angle, altitude, queue, peerClosed, sent, frames,
           default_params, callPolls, callRecvs, lastRecv, last, headCut,
           eofSeen >>

-----------------------------------------------------------------------------
\* Bounds of the model

MaxMsgLen == 2      \* every message over Alphabet up to this length is sent
MaxSends  == 2      \* messages the producer writes
MaxFrames == 3      \* frames of the render loop
MaxPolls  == 3      \* poll() calls within one getSatelliteData call

NUL == "NUL"        \* the byte 0, written as a name

Alphabet == {"1", ",", "a"}

RECURSIVE AllStrings(_)
AllStrings(n) ==
    IF n = 0 THEN {<<>>}
    ELSE LET shorter == AllStrings(n - 1)
         IN  shorter \cup { Append(s, c) : s \in {t \in shorter : Len(t) = n - 1},
                                           c \in Alphabet }

Samples ==
    { <<"5", ",", "2", "0", "0">>,                       \* "5,200"
      <<"3", ",", "a", ",", "1", "2">>,                  \* "3,a,12"
      <<"1", "2", "3", "4", ",", "5", "6", "7", "8">>,   \* "1234,5678"
      <<"-", "4", ",", "9">>,                            \* "-4,9"
      <<"\f", "5", ",", "2">>,                          \* form feed, "5,2"
      <<"5", NUL, ",", "2">> }                           \* "5", byte 0, ",2"

\* what the producer writes after its first message
Backlog == { <<"3", ",", "1", "2">>, <<"1">> }           \* "3,12", "1"

Messages == Samples \cup (AllStrings(MaxMsgLen) \ {<<>>})

\* An out-of-bounds read of the vector yields an int that nothing in the
\* program determines (heap contents, different from run to run).
\* Indeterminate stands for that value, whichever int it is. It is written
\* as INT_MIN, which no computation of the program reaches here: atoi sees at
\* most RecvMax bytes and angle adds up at most MaxFrames such values.
Indeterminate == 0 - 2147483647 - 1
Garbage == {Indeterminate}

-----------------------------------------------------------------------------
\* Constants of the program and of its platform

SockFd   == 3       \* descriptor returned by socket(): 0, 1 and 2 are taken
PtrSize  == 8       \* sizeof(buf) for char* buf (LP64)
BufSize  == 1024    \* char buffer[1024] of main
RecvMax  == PtrSize - 1
DefaultSwapped == <<10, 2>>
Default  == <<2, 10>>

-----------------------------------------------------------------------------
\* strtok(buf, ",") / atoi(token)

Digits == <<"0", "1", "2", "3", "4", "5", "6", "7", "8", "9">>
IsDigit(c) == \E i \in 1..10 : Digits[i] = c
DigitVal(c) == (CHOOSE i \in 1..10 : Digits[i] = c) - 1
\* isspace in the C locale: space, \t, \n, \v (byte 11), \f, \r
IsSpace(c) == c \in {" ", "\t", "\n", "", "\f", "\r"}

RECURSIVE SkipSpace(_)
SkipSpace(s) ==
    IF s # <<>> /\ IsSpace(Head(s)) THEN SkipSpace(Tail(s)) ELSE s

RECURSIVE AccDigits(_, _)
AccDigits(s, acc) ==
    IF s = <<>> \/ ~IsDigit(Head(s)) THEN acc
    ELSE AccDigits(Tail(s), acc * 10 + DigitVal(Head(s)))

\* atoi: leading white space, an optional sign, then the longest run of
\* digits; 0 when there is none.
atoi(tok) ==
    LET s == SkipSpace(tok)
    IN  IF s = <<>> THEN 0
        ELSE IF Head(s) = "-" THEN 0 - AccDigits(Tail(s), 0)
        ELSE IF Head(s) = "+" THEN AccDigits(Tail(s), 0)
        ELSE AccDigits(s, 0)

\* strtok with delimiter ",": the maximal runs of non-delimiter bytes, so
\* empty fields produce no token. buf is a C string: it ends at its first
\* NUL byte, be it the one line 202 writes behind the received bytes or one
\* that was received.
RECURSIVE strtok(_, _, _)
strtok(s, cur, out) ==
    IF s = <<>> \/ Head(s) = NUL
    THEN (IF cur = <<>> THEN out ELSE Append(out, cur))
    ELSE IF Head(s) = ","
         THEN strtok(Tail(s), <<>>, IF cur = <<>> THEN out ELSE Append(out, cur))
         ELSE strtok(Tail(s), Append(cur, Head(s)), out)

\* lines 204-211: one push_back(atoi(token)) per token
ParseParams(bytes) ==
    LET toks == strtok(bytes, <<>>, <<>>)
    IN  [i \in 1..Len(toks) |-> atoi(toks[i])]

-----------------------------------------------------------------------------
\* The byte stream of the socket

RECURSIVE Flatten(_)
Flatten(q) == IF q = <<>> THEN <<>> ELSE Head(q) \o Flatten(Tail(q))

Min(a, b) == IF a < b THEN a ELSE b

Take(s, n) == SubSeq(s, 1, Min(n, Len(s)))

\* the queue after its first n bytes have been read
RECURSIVE DropBytes(_, _)
DropBytes(q, n) ==
    IF n = 0 \/ q = <<>> THEN q
    ELSE IF Len(Head(q)) <= n THEN DropBytes(Tail(q), n - Len(Head(q)))
    ELSE << SubSeq(Head(q), n + 1, Len(Head(q))) >> \o Tail(q)

-----------------------------------------------------------------------------
\* Pieces of the code that decide the outcomes below

\* line 100: if (fallback > 2) return 0;
RetriesExhaustedOff(f) == f > 1
RetriesExhaustedLate(f) == f > 3
RetriesExhausted(f) == f > 2

\* line 169: sat_params = default_params;
TimeoutResultEmpty(dp) == <<>>
TimeoutResult(dp) == dp

\* lines 182-186: EWOULDBLOCK is answered by continue, not by break
WouldBlockContinues == TRUE

\* line 280: angle += sat_params[0];
\* int addition; a sum with an indeterminate operand is indeterminate
Plus(a, b) == IF a = Indeterminate \/ b = Indeterminate THEN Indeterminate
              ELSE a + b

NextAngleByAltitude(a, params) == Plus(a, params[2])
NextAngle(a, params) == Plus(a, params[1])

-----------------------------------------------------------------------------
Init ==
    /\ pc = "start"
    /\ sockState = "none"
    /\ client_socket = -1
    /\ fallback = 0
    /\ connLog = <<>>
    /\ sleeps = 0
    /\ closeLog = <<>>
    /\ sat_params = <<>>
    /\ angle = 0
    /\ altitude = 0
    /\ queue = <<>>
    /\ peerClosed = FALSE
    /\ sent = 0
    /\ frames = 0
    /\ default_params = <<>>
    /\ callPolls = 0
    /\ callRecvs = 0
    /\ lastRecv = "none"
    /\ last = [kind |-> "none", got |-> <<>>, msg |-> <<>>, first |-> <<>>,
               clean |-> TRUE]
    /\ headCut = FALSE
    /\ eofSeen = FALSE

mainVars == << sat_params, angle, altitude, frames >>
callVars == << default_params, callPolls, callRecvs, lastRecv, last, eofSeen >>
peerVars == << queue, peerClosed, sent, headCut >>
connVars == << sockState, client_socket, fallback, connLog, sleeps, closeLog >>

-----------------------------------------------------------------------------
\* createSocket, lines 68-122

\* line 70-74: socket() fails, createSocket returns 1
SocketFails ==
    /\ pc = "start"
    /\ client_socket' = 1
    /\ pc' = "loop"
    /\ UNCHANGED << sockState, fallback, connLog, sleeps, closeLog >>
    /\ UNCHANGED << mainVars, callVars, peerVars >>

\* lines 85-90 with the result of fcntl ignored
FcntlFailsGoesOn ==
    /\ pc = "start"
    /\ sockState' = "open"
    /\ fallback' = 0
    /\ pc' = "connect"
    /\ UNCHANGED << client_socket, connLog, sleeps, closeLog >>
    /\ UNCHANGED << mainVars, callVars, peerVars >>

\* lines 85-90: the switch to non-blocking mode fails, createSocket returns 1
\* (the descriptor stays open)
FcntlFails ==
    /\ pc = "start"
    /\ sockState' = "open"
    /\ client_socket' = 1
    /\ pc' = "loop"
    /\ UNCHANGED << fallback, connLog, sleeps, closeLog >>
    /\ UNCHANGED << mainVars, callVars, peerVars >>

\* lines 70-93: the socket is made and switched to non-blocking mode
SetupOk ==
    /\ pc = "start"
    /\ sockState' = "nonblocking"
    /\ fallback' = 0
    /\ pc' = "connect"
    /\ UNCHANGED << client_socket, connLog, sleeps, closeLog >>
    /\ UNCHANGED << mainVars, callVars, peerVars >>

\* lines 98, 114-121 without connected = True: the loop connects again
ConnectOkNoFlag ==
    /\ pc = "connect"
    /\ connLog' = Append(connLog, "ok")
    /\ sockState' = "connected"
    /\ pc' = "connect"
    /\ UNCHANGED << client_socket, fallback, sleeps, closeLog >>
    /\ UNCHANGED << mainVars, callVars, peerVars >>

\* lines 98, 114-121: connect succeeds, the descriptor is returned
ConnectOk ==
    /\ pc = "connect"
    /\ connLog' = Append(connLog, "ok")
    /\ sockState' = "connected"
    /\ client_socket' = SockFd
    /\ pc' = "loop"
    /\ UNCHANGED << fallback, sleeps, closeLog >>
    /\ UNCHANGED << mainVars, callVars, peerVars >>

\* lines 98-106: connect fails with ENOENT or ECONNREFUSED
ConnectTransient ==
    /\ pc = "connect"
    /\ connLog' = Append(connLog, "transient")
    /\ IF RetriesExhausted(fallback)
       THEN /\ client_socket' = 0
            /\ pc' = "loop"
            /\ UNCHANGED << fallback, sleeps >>
       ELSE /\ sleeps' = sleeps + 1
            /\ fallback' = fallback + 1
            /\ pc' = "connect"
            /\ UNCHANGED client_socket
    /\ UNCHANGED << sockState, closeLog >>
    /\ UNCHANGED << mainVars, callVars, peerVars >>

\* lines 98, 107-111 without close(client_socket)
ConnectFatalNoClose ==
    /\ pc = "connect"
    /\ connLog' = Append(connLog, "other")
    /\ client_socket' = 1
    /\ pc' = "loop"
    /\ UNCHANGED << sockState, closeLog, fallback, sleeps >>
    /\ UNCHANGED << mainVars, callVars, peerVars >>

\* lines 98, 107-111: connect fails with any other error
ConnectFatal ==
    /\ pc = "connect"
    /\ connLog' = Append(connLog, "other")
    /\ closeLog' = Append(closeLog, SockFd)
    /\ sockState' = "closed"
    /\ client_socket' = 1
    /\ pc' = "loop"
    /\ UNCHANGED << fallback, sleeps >>
    /\ UNCHANGED << mainVars, callVars, peerVars >>

-----------------------------------------------------------------------------
\* The producer at the other end of the socket

Connected == sockState = "connected"

Send ==
    /\ pc \in {"loop", "poll"}
    /\ Connected
    /\ ~peerClosed
    /\ sent < MaxSends
    /\ sent' = sent + 1
    /\ \E m \in (IF sent = 0 THEN Messages ELSE Backlog) :
          queue' = Append(queue, m)
    /\ headCut' = (queue # <<>> /\ headCut)
    /\ UNCHANGED << pc, peerClosed >>
    /\ UNCHANGED << mainVars, callVars, connVars >>

PeerClose ==
    /\ pc \in {"loop", "poll"}
    /\ Connected
    /\ ~peerClosed
    /\ peerClosed' = TRUE
    /\ UNCHANGED << pc, queue, sent, headCut >>
    /\ UNCHANGED << mainVars, callVars, connVars >>

-----------------------------------------------------------------------------
\* main, lines 251-291

\* lines 257-262, 285-291: SDL_QUIT ends the loop; close(client_socket)
Quit ==
    /\ pc = "loop"
    /\ closeLog' = Append(closeLog, client_socket)
    /\ sockState' = IF client_socket = SockFd /\ sockState \in {"open", "nonblocking", "connected"}
                    THEN "closed" ELSE sockState
    /\ pc' = "done"
    /\ UNCHANGED << client_socket, fallback, connLog, sleeps >>
    /\ UNCHANGED << mainVars, callVars, peerVars >>

\* lines 271-276 and 150-156: the default is put in place of an empty
\* sat_params and getSatelliteData is entered with it
FrameBegin ==
    /\ pc = "loop"
    /\ frames < MaxFrames
    /\ frames' = frames + 1
    /\ sat_params' = IF sat_params = <<>> THEN Default ELSE sat_params
    /\ default_params' = sat_params'
    /\ callPolls' = 0
    /\ callRecvs' = 0
    /\ lastRecv' = "none"
    /\ pc' = "poll"
    /\ UNCHANGED << angle, altitude, last, eofSeen >>
    /\ UNCHANGED << connVars, peerVars >>

\* lines 276-282: the returned vector is stored and indexed at 0 and 1.
\* Indexing a vector of fewer than 2 elements is undefined: the process may
\* crash, or go on with whatever the out-of-bounds reads produce.
FrameEnd(ret) ==
    /\ sat_params' = ret
    /\ IF Len(ret) >= 2
       THEN /\ altitude' = ret[2]
            /\ angle' = NextAngle(angle, ret)
            /\ pc' = "loop"
       ELSE \/ /\ pc' = "crashed"
               /\ UNCHANGED << angle, altitude >>
            \/ \E g0, g1 \in Garbage :
                  LET read == << IF Len(ret) = 1 THEN ret[1] ELSE g0, g1 >>
                  IN  /\ altitude' = read[2]
                      /\ angle' = NextAngle(angle, read)
                      /\ pc' = "loop"

-----------------------------------------------------------------------------
\* getSatelliteData, lines 150-221: one action per pass of the while loop

OnSocket == client_socket = SockFd

\* kind: how the call ended; got: the bytes recv delivered; msg: the message
\* that was readable, when it was one whole message and nothing else;
\* first: the oldest message, when two or more whole messages were readable;
\* clean: every call finished so far ended in a timeout
Done(kind, got, msg) ==
    last' = [kind  |-> kind, got |-> got, msg |-> msg,
             first |-> IF kind = "data" /\ Len(queue) >= 2 /\ ~headCut
                       THEN queue[1] ELSE <<>>,
             clean |-> last.clean /\ kind = "timeout"]

\* lines 160-165: poll returns -1; the empty sat_params is returned
PollError ==
    /\ pc = "poll"
    /\ callPolls' = callPolls + 1
    /\ Done("pollerr", <<>>, <<>>)
    /\ FrameEnd(<<>>)
    /\ UNCHANGED << frames, default_params, callRecvs, lastRecv, eofSeen >>
    /\ UNCHANGED << connVars, peerVars >>

\* lines 160, 166-171: poll returns 0
PollTimeout ==
    /\ pc = "poll"
    /\ OnSocket => (queue = <<>> /\ ~peerClosed)
    /\ callPolls' = callPolls + 1
    /\ Done("timeout", <<>>, <<>>)
    /\ FrameEnd(TimeoutResult(default_params))
    /\ UNCHANGED << frames, default_params, callRecvs, lastRecv, eofSeen >>
    /\ UNCHANGED << connVars, peerVars >>

\* lines 175, 213-216: poll reports events without POLLIN (POLLHUP, POLLERR,
\* POLLNVAL on a descriptor that is not the connected socket); the loop goes on
PollNoInput ==
    /\ pc = "poll"
    /\ ~OnSocket
    /\ callPolls < MaxPolls - 1
    /\ callPolls' = callPolls + 1
    /\ UNCHANGED << pc, default_params, callRecvs, lastRecv, last, eofSeen >>
    /\ UNCHANGED << mainVars, connVars, peerVars >>

\* lines 179-186: POLLIN, recv fails with EWOULDBLOCK
RecvWouldBlock ==
    /\ pc = "poll"
    /\ OnSocket /\ queue = <<>> /\ ~peerClosed
    /\ callPolls < MaxPolls - 1
    /\ callPolls' = callPolls + 1
    /\ callRecvs' = callRecvs + 1
    /\ lastRecv' = "wouldblock"
    /\ IF WouldBlockContinues
       THEN UNCHANGED << pc, last, mainVars >>
       ELSE /\ Done("wouldblock", <<>>, <<>>)
            /\ FrameEnd(<<>>)
            /\ UNCHANGED frames
    /\ UNCHANGED << default_params, eofSeen >>
    /\ UNCHANGED << connVars, peerVars >>

\* lines 179-192: POLLIN, recv fails with another error (ENOTSOCK on a
\* descriptor that is no socket, ECONNRESET, ...)
RecvError ==
    /\ pc = "poll"
    /\ callPolls' = callPolls + 1
    /\ callRecvs' = callRecvs + 1
    /\ lastRecv' = "error"
    /\ Done("recverr", <<>>, <<>>)
    /\ FrameEnd(<<>>)
    /\ UNCHANGED << frames, default_params, eofSeen >>
    /\ UNCHANGED << connVars, peerVars >>

\* lines 179, 193-198 followed by a new connect on the closed connection
RecvClosedReconnects ==
    /\ pc = "poll"
    /\ OnSocket /\ queue = <<>> /\ peerClosed
    /\ callPolls' = callPolls + 1
    /\ callRecvs' = callRecvs + 1
    /\ lastRecv' = "closed"
    /\ eofSeen' = TRUE
    /\ Done("closed", <<>>, <<>>)
    /\ FrameEnd(<<>>)
    /\ connLog' = Append(connLog, "other")
    /\ UNCHANGED << frames, default_params >>
    /\ UNCHANGED << sockState, client_socket, fallback, sleeps, closeLog >>
    /\ UNCHANGED peerVars

\* lines 179, 193-198: POLLIN, recv returns 0
RecvClosed ==
    /\ pc = "poll"
    /\ OnSocket /\ queue = <<>> /\ peerClosed
    /\ callPolls' = callPolls + 1
    /\ callRecvs' = callRecvs + 1
    /\ lastRecv' = "closed"
    /\ eofSeen' = TRUE
    /\ Done("closed", <<>>, <<>>)
    /\ FrameEnd(<<>>)
    /\ UNCHANGED << frames, default_params >>
    /\ UNCHANGED << connVars, peerVars >>

\* lines 179, 200-211: POLLIN, recv returns up to sizeof(buf)-1 bytes, which
\* are split and converted. buf is a char* here, so sizeof(buf) is PtrSize.
\* At most RecvMax = 7 bytes reach atoi, so its result always fits an int.
\* (Line 201 prints buf before it is terminated; only the output depends on
\* that read, and output is not part of the state.)
RecvData ==
    /\ pc = "poll"
    /\ OnSocket /\ queue # <<>>
    /\ LET got == Take(Flatten(queue), RecvMax)
           msg == IF Len(queue) = 1 /\ ~headCut THEN queue[1] ELSE <<>>
       IN  /\ queue' = DropBytes(queue, Len(got))
           /\ headCut' = (queue' # <<>> /\
                          Head(queue') # queue[Len(queue) - Len(queue') + 1])
           /\ Done("data", got, msg)
           /\ FrameEnd(ParseParams(got))
    /\ callPolls' = callPolls + 1
    /\ callRecvs' = callRecvs + 1
    /\ lastRecv' = "data"
    /\ UNCHANGED << frames, default_params, eofSeen, peerClosed, sent >>
    /\ UNCHANGED connVars

-----------------------------------------------------------------------------
Next ==
    \/ SocketFails \/ FcntlFails \/ SetupOk
    \/ ConnectOk \/ ConnectTransient \/ ConnectFatal
    \/ Send \/ PeerClose
    \/ Quit \/ FrameBegin
    \/ PollError \/ PollTimeout \/ PollNoInput
    \/ RecvWouldBlock \/ RecvError \/ RecvClosed \/ RecvData

Spec == Init /\ [][Next]_vars

-----------------------------------------------------------------------------
\* Vocabulary of the properties

Returned == pc \notin {"start", "connect"}      \* createSocket has returned
AllTransient ==
    /\ connLog # <<>>
    /\ \A i \in 1..Len(connLog) : connLog[i] = "transient"

CallEnds == pc = "poll" /\ pc' # "poll"         \* getSatelliteData returns
TimeoutStep == CallEnds /\ last'.kind = "timeout"
RecvStep == callRecvs' = callRecvs + 1          \* the step calls recv

Msg5200 == <<"5", ",", "2", "0", "0">>

-----------------------------------------------------------------------------
\* C1: when every connect attempt of createSocket fails with ENOENT or
\* ECONNREFUSED, the call returns 0 (retries exhausted), and it does so after
\* exactly 3 sleep-and-retry steps with fallback = 3: not after 2, not after 4.
C1_ExhaustedAfterThreeRetries ==
    /\ (Returned /\ AllTransient) =>
            (client_socket = 0 /\ sleeps = 3 /\ fallback = 3)
    /\ (pc = "connect" /\ AllTransient) =>
            (sleeps = Len(connLog) /\ fallback = sleeps /\ sleeps <= 3)
    /\ (Returned /\ client_socket = 0) => (AllTransient /\ sleeps = 3)

C1_Witness ==
    pc = "loop" /\ AllTransient /\ client_socket = 0 /\ sleeps = 3

\* C2: a pass of getSatelliteData in which poll returns 0 calls no recv,
\* reads nothing from the socket and returns the state it was given, so
\* main's sat_params after the frame is the state passed into the call.
C2_TimeoutKeepsState ==
    [][ TimeoutStep =>
            /\ callRecvs' = callRecvs
            /\ queue' = queue
            /\ sat_params' = default_params
            /\ sat_params' = sat_params ]_vars

C2_Witness ==
    /\ pc = "loop"
    /\ last.kind = "timeout"
    /\ callRecvs = 0
    /\ sat_params = <<3, 0, 12>>

\* C3: the frame that receives "5,200" leaves sat_params = [5, 200]; on each
\* frame after it in which poll times out while the state is still [5, 200],
\* the state stays [5, 200], angle grows by exactly 5 and the altitude passed
\* to calculate_sat_coordinates is 200.
C3_EndToEnd ==
    [][ /\ (CallEnds /\ last'.kind = "data" /\ last'.got = Msg5200) =>
                (sat_params' = <<5, 200>> /\ angle' = Plus(angle, 5) /\ altitude' = 200)
        /\ (TimeoutStep /\ sat_params = <<5, 200>>) =>
                (sat_params' = <<5, 200>> /\ angle' = Plus(angle, 5) /\ altitude' = 200)
      ]_vars

C3_Witness ==
    /\ pc = "loop"
    /\ frames = 3
    /\ last.kind = "timeout"
    /\ sat_params = <<5, 200>>
    /\ angle = 15
    /\ altitude = 200

-----------------------------------------------------------------------------
\* What a message means on the wire (section 6 of the specification):
\* comma-separated fields, each an optional minus sign and decimal digits

RECURSIVE Fields(_, _, _)
Fields(s, cur, out) ==
    IF s = <<>> THEN Append(out, cur)
    ELSE IF Head(s) = "," THEN Fields(Tail(s), <<>>, Append(out, cur))
    ELSE Fields(Tail(s), Append(cur, Head(s)), out)

Unsigned(t) == IF t # <<>> /\ Head(t) = "-" THEN Tail(t) ELSE t

IsIntToken(t) ==
    /\ Unsigned(t) # <<>>
    /\ \A i \in 1..Len(Unsigned(t)) : IsDigit(Unsigned(t)[i])

RECURSIVE DecVal(_)
DecVal(d) ==
    IF d = <<>> THEN 0
    ELSE DecVal(SubSeq(d, 1, Len(d) - 1)) * 10 + DigitVal(d[Len(d)])

IntValue(t) == IF Head(t) = "-" THEN 0 - DecVal(Tail(t)) ELSE DecVal(t)

IsIntList(m) ==
    \A i \in 1..Len(Fields(m, <<>>, <<>>)) : IsIntToken(Fields(m, <<>>, <<>>)[i])

\* the integers of the fields that are integers, in order
ValidInts(m) ==
    LET ok == SelectSeq(Fields(m, <<>>, <<>>), IsIntToken)
    IN  [i \in 1..Len(ok) |-> IntValue(ok[i])]

-----------------------------------------------------------------------------
\* C4: a call that finds one whole message readable, the message being a
\* comma-separated list of decimal integers that fits in main's 1024-byte
\* buffer, returns exactly the integers of that message, in order.
C4_WholeMessageParsed ==
    ( /\ pc # "poll"
      /\ last.kind = "data"
      /\ last.msg # <<>>
      /\ Len(last.msg) <= BufSize - 1
      /\ IsIntList(last.msg) )
    => sat_params = ValidInts(last.msg)

\* C5: a token of the received bytes that is not an integer adds no element
\* to the returned sequence; the integers that remain keep their order.
C5_InvalidTokenSkipped ==
    (pc # "poll" /\ last.kind = "data") => sat_params = ValidInts(last.got)

\* C6: when the received bytes hold no integer, the call returns the state
\* it was given; a read of one or more bytes never returns an empty sequence.
C6_GarbageKeepsState ==
    (pc # "poll" /\ last.kind = "data") =>
        /\ sat_params # <<>>
        /\ (ValidInts(last.got) = <<>>) => sat_params = default_params

\* C7: once a recv has returned 0 the connection is closed by the peer: no
\* later step calls recv again, and the loop goes on with the state it had.
C7_NoReadAfterPeerClosed ==
    /\ [](eofSeen => pc # "crashed")
    /\ []((pc # "poll" /\ last.kind = "closed") => sat_params = default_params)
    /\ [][eofSeen => ~RecvStep]_vars

\* C8: when poll returns -1, or recv fails with an error other than
\* EWOULDBLOCK, the call returns the state it was given, never an empty one.
C8_ErrorKeepsState ==
    (pc # "poll" /\ last.kind \in {"pollerr", "recverr"}) =>
        (sat_params = default_params /\ sat_params # <<>>)

\* C9: whenever main indexes sat_params at 0 and 1 the vector has at least
\* 2 elements, so no frame ends in an out-of-bounds read.
C9_AtLeastTwoElements ==
    (pc # "poll" /\ frames > 0) => (Len(sat_params) >= 2 /\ pc # "crashed")

\* C10: a call to getSatelliteData on the connected socket makes at
\* most one poll and at most one recv (so a recv that fails with EWOULDBLOCK
\* is followed by no further poll or recv in that call).
C10_AtMostOneRead ==
    OnSocket => (callPolls <= 1 /\ callRecvs <= 1)

-----------------------------------------------------------------------------
\* The loop of getSatelliteData without a bound on its passes

\* lines 175, 213-217: a further pass in which poll reports events without
\* POLLIN, beyond the passes that callPolls counts. A descriptor that is not
\* the connected socket (0 or 1, what createSocket returns when it fails) and
\* reports POLLHUP, POLLERR or POLLNVAL reports it again on every poll.
\* Beyond MaxPolls - 1 passes only the parity of the count is kept.
PollNoInputSpin ==
    /\ pc = "poll"
    /\ ~OnSocket
    /\ callPolls >= MaxPolls - 1
    /\ callPolls' = IF callPolls = MaxPolls - 1 THEN MaxPolls ELSE MaxPolls - 1
    /\ UNCHANGED << pc, default_params, callRecvs, lastRecv, last, eofSeen >>
    /\ UNCHANGED << mainVars, connVars, peerVars >>

\* one pass of the while loop, whatever poll and recv answer
PollPass ==
    \/ PollError \/ PollTimeout \/ PollNoInput \/ PollNoInputSpin
    \/ RecvWouldBlock \/ RecvError \/ RecvClosed \/ RecvData

NextLive == Next \/ PollNoInputSpin

\* the process is single-threaded and never waits longer than poll's 10 ms:
\* inside the loop it always goes on to its next pass
SpecLive == Init /\ [][NextLive]_vars /\ WF_vars(PollPass)

\* C11: every call to getSatelliteData returns, whatever poll and recv answer
\* (events without POLLIN and repeated EWOULDBLOCK included).
C11_EveryCallReturns == (pc = "poll") ~> (pc # "poll")

-----------------------------------------------------------------------------
Count(seq, x) == Cardinality({ i \in 1..Len(seq) : seq[i] = x })

\* C12: a connect failure that is neither ENOENT nor ECONNREFUSED is fatal on
\* whichever attempt it happens: the descriptor is closed, createSocket
\* returns 1, and no connect attempt and no sleep follows it.
C12_FatalConnectStops ==
    \A i \in 1..Len(connLog) :
        connLog[i] = "other" =>
            /\ i = Len(connLog)
            /\ Returned
            /\ client_socket = 1
            /\ sockState = "closed"
            /\ closeLog # <<>> /\ closeLog[1] = SockFd
            /\ sleeps = i - 1

C12_Witness ==
    /\ pc = "loop"
    /\ connLog = <<"transient", "transient", "other">>
    /\ sleeps = 2
    /\ sockState = "closed"
    /\ client_socket = 1

\* C13: on every path to the end of main the socket made by createSocket has
\* been closed exactly once, and close was called on no other descriptor.
C13_ClosedExactlyOnce ==
    (pc = "done" /\ sockState # "none") =>
        /\ Count(closeLog, SockFd) = 1
        /\ \A i \in 1..Len(closeLog) : closeLog[i] = SockFd

\* C14: after createSocket has reported a fatal setup or connect error
\* (return value 1) the frame loop calls neither poll nor recv.
C14_FatalAbortsTelemetry ==
    (Returned /\ client_socket = 1) =>
        (pc # "poll" /\ callPolls = 0 /\ callRecvs = 0)

-----------------------------------------------------------------------------
\* C15 as stated: one createSocket call sees at most 3 transiently failed
\* connect attempts; it gives up on the third, without a fourth attempt.
C15_AtMostThreeTransient == Count(connLog, "transient") <= 3

\* C15 as amended: one createSocket call sees at most 4 transiently failed
\* connect attempts; it returns 0 on the fourth, after 3 sleeps, without a
\* fifth attempt, and not as a fatal error (the result is not 1 and the
\* descriptor is not closed by createSocket).
C15_ExhaustedOnFourthFailure ==
    /\ Count(connLog, "transient") <= 4
    /\ Count(connLog, "transient") = 4 =>
            (Returned /\ client_socket = 0 /\ Len(connLog) = 4)
    /\ (Returned /\ client_socket = 0) =>
            /\ Count(connLog, "transient") = 4
            /\ sleeps = 3
            /\ sockState = "nonblocking"
            /\ Count(closeLog, SockFd) = 0

C15_Witness ==
    /\ pc = "loop"
    /\ client_socket = 0
    /\ connLog = <<"transient", "transient", "transient", "transient">>

\* C16: connect is attempted only on a descriptor already switched to
\* non-blocking mode; when the switch fails createSocket returns 1 with no
\* connect attempt and no retry made.
C16_NonBlockingBeforeConnect ==
    /\ pc = "connect" => sockState = "nonblocking"
    /\ connLog # <<>> => sockState \in {"nonblocking", "connected", "closed"}
    /\ sockState = "open" =>
            /\ Returned
            /\ client_socket = 1
            /\ connLog = <<>>
            /\ sleeps = 0 /\ fallback = 0

C16_Witness ==
    pc = "loop" /\ sockState = "open" /\ client_socket = 1 /\ connLog = <<>>

\* C17: a connect that succeeds, at once or after transient failures, ends
\* createSocket: it is the last connect attempt, no sleep follows it, and the
\* value returned is the descriptor that was connected.
C17_SuccessReturnsAtOnce ==
    \A i \in 1..Len(connLog) :
        connLog[i] = "ok" =>
            /\ i = Len(connLog)
            /\ Returned
            /\ client_socket = SockFd
            /\ sleeps = i - 1
            /\ sockState \in {"connected", "closed"}
            /\ sockState = "closed" => pc = "done"

C17_Witness ==
    /\ pc = "loop"
    /\ connLog = <<"transient", "ok">>
    /\ client_socket = SockFd
    /\ sleeps = 1
    /\ sockState = "connected"

-----------------------------------------------------------------------------
\* C18: when two or more whole messages are unread, the oldest being a list
\* of integers, a call reads exactly the oldest one: not a concatenation of
\* messages and not a fragment, so it returns the integers of that message.
C18_OneMessagePerCall ==
    ( /\ pc # "poll"
      /\ last.kind = "data"
      /\ last.first # <<>>
      /\ IsIntList(last.first) )
    => (last.got = last.first /\ sat_params = ValidInts(last.first))

\* C19: as long as every call so far has ended in a timeout, the state used
\* by the frame loop is the default [2, 10]: each such frame adds 2 to angle
\* and passes altitude 10.
C19_DefaultUntilFirstFrame ==
    /\ (pc = "poll" /\ last.clean) =>
            (sat_params = <<2, 10>> /\ default_params = <<2, 10>>
                /\ angle = 2 * (frames - 1))
    /\ (pc # "poll" /\ frames > 0 /\ last.clean) =>
            (sat_params = <<2, 10>> /\ angle = 2 * frames /\ altitude = 10
                /\ pc # "crashed")

C19_Witness ==
    /\ pc = "loop"
    /\ frames = 3
    /\ last.kind = "timeout" /\ last.clean
    /\ angle = 6
    /\ altitude = 10

\* C20: once createSocket has returned, no step makes a connect attempt or
\* a connect retry, and the descriptor used by the frame loop never changes,
\* whatever poll and recv answer and whether or not the peer has closed.
C20_ConnectAtStartupOnly ==
    [][ Returned =>
            /\ connLog' = connLog
            /\ sleeps' = sleeps
            /\ fallback' = fallback
            /\ client_socket' = client_socket ]_vars

C20_Witness ==
    /\ pc = "poll"
    /\ peerClosed
    /\ last.kind = "data" /\ Len(sat_params) >= 2
    /\ frames >= 2
    /\ connLog = <<"ok">>
    /\ client_socket = SockFd

====
